---------------------------- MODULE Spec2Model ----------------------------
(***************************************************************************)
(* A model of the receipt bot: the record schemas (schemas.py), the two    *)
(* extractors (ocr_processor.py, ai_processor.py), the sheet adapter       *)
(* (google_sheets.py) and the three handle_image variants of bot.py.       *)
(*                                                                         *)
(* Representation of Python values:                                        *)
(*   None / a value        the sequences <<>> / <<v>>                      *)
(*   a float amount        an integer number of thousandths (150000 is     *)
(*                         150.0, 12346 is 12.346)                         *)
(*   a str(...) of a number a string, by the tables PyStr and strftime     *)
(*   a model reply         a sequence of tokens ("{", "}", "K" a quoted    *)
(*                         key with its colon, "V" a scalar, "," and "T"   *)
(*                         a run of prose) plus the dict its members hold  *)
(***************************************************************************)
EXTENDS Integers, Sequences, FiniteSets, TLC

VARIABLES
    \* ---- bot.py, google_sheets.py, ocr_processor.py
    variant,            \* which of the three handle_image variants of bot.py runs
    ocr_processor,      \* ReceiptBot.ocr_processor is set (TRUE) or None (FALSE)
    sheets_handler,     \* ReceiptBot.sheets_handler is set (TRUE) or None (FALSE)
    sheet,              \* GoogleSheetsHandler.sheet is a worksheet (TRUE) or None
    rows,               \* the rows of the backing worksheet, oldest first
    clock,              \* datetime.now(), in ticks
    handled,            \* number of inbound images whose handler has finished
    pc,                 \* position of the running handle_image invocation
    temp_file,          \* that invocation's temp file: "none", "exists", "deleted"
    provider_calls,     \* provider requests issued for the current image
    response,           \* <<>> or <<outcome of the provider request>>
    extraction_result,  \* <<>> or <<ExtractionResponse>>
    save_success,       \* <<>> or <<value returned by append_transaction>>
    appended,           \* sheet.append_row completed in this invocation
    message,            \* <<>> or <<the text the user currently sees for this image>>
    escaped,            \* an exception left handle_image
    append_calls,       \* calls of append_transaction made for the current image
    \* ---- ai_processor.py
    ar_pc,              \* position inside analyze_receipt
    ar_calls,           \* the provider requests analyze_receipt has issued, in order
    ar_result,          \* <<>> (not returned), <<None>> as <<<<>>>>, or <<<<record>>>>
    \* ---- schemas.py QuerySchema
    q_raw,              \* the keyword arguments given to QuerySchema(...)
    q_state,            \* "raw", "constructed" or "rejected"
    query,              \* <<>> or <<the constructed QuerySchema>>
    \* ---- ocr_processor.py _extract_json_from_response, called on its own
    j_text,             \* the text it is given
    j_result,           \* <<>> (not called yet) or <<what it returned>>
    \* ---- bot.py: handle_image invocations side by side on one event loop
    h,                  \* per inbound image: position, temp file path, result
    files,              \* the temp files on disk, by path
    next_file,          \* the next path NamedTemporaryFile hands out
    loop,               \* 0, or the invocation that occupies the event loop
    c_rows              \* the images whose row the worksheet holds, oldest first

botVars == <<variant, ocr_processor, sheets_handler, sheet, rows, clock, handled, pc,
             temp_file, provider_calls, response, extraction_result, save_success,
             appended, message, escaped, append_calls>>
arVars == <<ar_pc, ar_calls, ar_result>>
qVars == <<q_raw, q_state, query>>
jVars == <<j_text, j_result>>
cVars == <<h, files, next_file, loop, c_rows>>
vars == <<botVars, arVars, qVars, jVars, cVars>>

None == <<>>
Some(v) == <<v>>

-----------------------------------------------------------------------------
(* Bounds of the model. *)

\* Inbound images handled one after the other.
NumImages == 2

-----------------------------------------------------------------------------
(* The values a model reply can carry. *)

Missing == "<missing>"
Unknown == "Unknown"

\* The date strings of the model.
RawDates == {"2025-03-01", "03/01/2025", "2025-02-30", Unknown, Missing}

Num(milli) == [kind |-> "number", milli |-> milli]
RawAmounts == {Num(150000), Num(12346), Num(0), Num(0 - 5000),
               [kind |-> "text", milli |-> 0]}      \* "abc"

RawDict(dt, s, r, a, amt) ==
    [date_sent |-> dt, sender_name |-> s, receiver_name |-> r,
     account_number |-> a, amount |-> amt]

EmptyDict == RawDict(Missing, Missing, Missing, Missing,
                     [kind |-> "missing", milli |-> 0])

Payloads ==
    { RawDict(dt, n[1], n[2], n[3], amt) :
        dt \in RawDates,
        n \in {<<"John Doe", "Jane Smith", "0123456789">>,
               <<Unknown, Unknown, Unknown>>},
        amt \in RawAmounts }

-----------------------------------------------------------------------------
(* schemas.py *)

IsLeap(y) == (y % 4 = 0 /\ y % 100 # 0) \/ y % 400 = 0
DaysIn(y, m) ==
    IF m = 2 THEN (IF IsLeap(y) THEN 29 ELSE 28)
    ELSE IF m \in {4, 6, 9, 11} THEN 30 ELSE 31

\* How a date string of the model reads: its separators and its three numbers.
Shape(form, y, m, d) == [form |-> form, y |-> y, m |-> m, d |-> d]
DateShape(s) ==
    CASE s = "2025-03-01" -> Shape("Y-M-D", 2025, 3, 1)
      [] s = "2025-02-30" -> Shape("Y-M-D", 2025, 2, 30)
      [] s = "03/01/2025" -> Shape("M/D/Y", 2025, 3, 1)
      [] OTHER -> Shape("word", 0, 0, 0)

\* datetime.strptime(s, "%Y-%m-%d") succeeds.
ParsesYMD(s) ==
    LET dt == DateShape(s) IN
    /\ dt.form = "Y-M-D"
    /\ dt.y \in 1..9999
    /\ dt.m \in 1..12
    /\ dt.d \in 1..DaysIn(dt.y, dt.m)

\* round(x, 2) on thousandths.
Round2(milli) == ((milli + 5) \div 10) * 10

HasTwoDecimals(milli) == milli % 10 = 0

TextFields == {"sender_name", "receiver_name", "account_number"}

\* ReceiptExtraction(**d): five required fields, four str and one float.  The
\* class declares no validator, so any string and any float are accepted.
ReceiptExtraction(d) ==
    IF \/ d.date_sent = Missing
       \/ \E f \in TextFields : d[f] = Missing
       \/ d.amount.kind # "number"
    THEN None                       \* pydantic.ValidationError
    ELSE Some(RawDict(d.date_sent, d.sender_name, d.receiver_name,
                      d.account_number, d.amount.milli))

\* The all-"Unknown" record with amount 0.0.
SentinelRecord == RawDict(Unknown, Unknown, Unknown, Unknown, 0)

\* TransactionData(**d): the Record Model.  Required fields as above; the
\* amount is rounded to 2 decimals and must then be > 0, the date must be
\* "Unknown" or parse as YYYY-MM-DD, the text fields are non-empty; the
\* all-"Unknown" record with amount 0.0 is accepted as it is.
TransactionData(d) ==
    LET base == ReceiptExtraction(d) IN
    IF base = None THEN None
    ELSE LET r == base[1]
             n == [r EXCEPT !.amount = Round2(r.amount)] IN
         IF r = SentinelRecord THEN Some(r)
         ELSE IF n.amount > 0 /\ (n.date_sent = Unknown \/ ParsesYMD(n.date_sent))
              THEN Some(n)
              ELSE None

\* ExtractionResponse(success=..., data=..., error=..., raw_response=...),
\* fields not given default to None.
ExtractionResponse(success, data, error, raw_response) ==
    [success |-> success, data |-> data, error |-> error,
     raw_response |-> raw_response]

-----------------------------------------------------------------------------
(* Reply texts and json.loads *)

Tokens == {"{", "}", "K", "V", ",", "T"}

\* The index after the JSON value that starts at s[i], or 0 when there is none.
RECURSIVE ParseValue(_, _), ParseMembers(_, _)
ParseMembers(s, i) ==
    IF i + 1 > Len(s) \/ s[i] # "K" THEN 0
    ELSE LET j == ParseValue(s, i + 1) IN
         IF j = 0 \/ j > Len(s) THEN 0
         ELSE IF s[j] = "}" THEN j + 1
         ELSE IF s[j] = "," THEN ParseMembers(s, j + 1)
         ELSE 0

ParseValue(s, i) ==
    IF i > Len(s) THEN 0
    ELSE IF s[i] = "V" THEN i + 1
    ELSE IF s[i] = "{"
         THEN IF i + 1 <= Len(s) /\ s[i + 1] = "}" THEN i + 2
              ELSE ParseMembers(s, i + 1)
    ELSE 0

\* json.loads(s) does not raise.
IsJson(s) == Len(s) > 0 /\ ParseValue(s, 1) = Len(s) + 1

\* str.find and str.rfind, 0-based, -1 when absent.
find(s, c) ==
    IF \E i \in 1..Len(s) : s[i] = c
    THEN (CHOOSE i \in 1..Len(s) : s[i] = c /\ \A j \in 1..(i - 1) : s[j] # c) - 1
    ELSE 0 - 1

\* str.find where the code calls str.rfind.
rfindAsFind(s, c) ==
    IF \E i \in 1..Len(s) : s[i] = c
    THEN (CHOOSE i \in 1..Len(s) : s[i] = c /\ \A j \in 1..(i - 1) : s[j] # c) - 1
    ELSE 0 - 1

rfind(s, c) ==
    IF \E i \in 1..Len(s) : s[i] = c
    THEN (CHOOSE i \in 1..Len(s) : s[i] = c /\ \A j \in (i + 1)..Len(s) : s[j] # c) - 1
    ELSE 0 - 1

\* text[a:b] for 0 <= a and 0 <= b <= len(text).
Slice(s, a, b) == IF b <= a THEN <<>> ELSE SubSeq(s, a + 1, b)

\* OCRProcessor._extract_json_from_response: None, or the slice from the first
\* "{" to the last "}".
_extract_json_from_response(text) ==
    LET start_idx == find(text, "{")
        end_idx == rfind(text, "}") + 1 IN
    IF start_idx # 0 - 1 /\ end_idx # 0
    THEN LET json_str == Slice(text, start_idx, end_idx) IN
         IF IsJson(json_str) THEN Some(json_str) ELSE None
    ELSE None

\* A reply: its text and the dict its members spell.
Reply(text, payload) == [text |-> text, payload |-> payload]

\* json.loads(json_str) for a slice of `reply` that is JSON: the members' dict,
\* the empty dict for an object with no members.
json_loads(json_str, reply) ==
    IF \E i \in 1..Len(json_str) : json_str[i] = "K" THEN reply.payload ELSE EmptyDict

\* The texts the provider is asked to answer with, and the ways they go wrong.
ReplyTexts ==
    { <<"{", "K", "V", "}">>,               \* the bare object
      <<"T", "{", "K", "V", "}", "T">>,     \* the object inside prose or a code fence
      <<"{", "K", "V">>,                    \* cut off by max_tokens
      <<"{", "}">>,                         \* an empty object
      <<"T">> }                             \* prose only

\* A text whose object can be extracted carries any payload; every text can
\* also carry none of the five keys.
Replies ==
    { Reply(t, p) : t \in {x \in ReplyTexts : _extract_json_from_response(x) # None},
                    p \in Payloads }
    \cup { Reply(t, EmptyDict) : t \in ReplyTexts }

-----------------------------------------------------------------------------
(* ocr_processor.py *)

\* What client.chat.completions.create does: it raises, or it returns a reply.
ProviderErrors == {"Rate limit reached for requests", "Connection error.",
                   "Incorrect API key provided"}
Raised(msg) == [kind |-> "error", msg |-> msg, reply |-> Reply(<<>>, EmptyDict)]
Returned(reply) == [kind |-> "reply", msg |-> "", reply |-> reply]
ProviderOutcomes == {Raised(m) : m \in ProviderErrors} \cup {Returned(r) : r \in Replies}

NoJsonError == "No valid JSON found in API response"
ValidationErrorText == "validation error for TransactionData"

\* A variant of extract_data whose except branch hands back a default record
\* beside the error.
extract_dataDefaultRecord(outcome) ==
    IF outcome.kind = "error"
    THEN ExtractionResponse(FALSE, None, Some(outcome.msg), None)
    ELSE LET raw_content == outcome.reply
             json_str == _extract_json_from_response(raw_content.text) IN
         IF json_str = None
         THEN ExtractionResponse(FALSE, None, Some(NoJsonError), Some(raw_content))
         ELSE LET extracted_data == json_loads(json_str[1], raw_content)
                  validated_data == TransactionData(extracted_data) IN
              IF validated_data = None
              THEN ExtractionResponse(FALSE, Some(SentinelRecord),
                                      Some(ValidationErrorText), None)
              ELSE ExtractionResponse(TRUE, validated_data, None, Some(raw_content))

\* OCRProcessor.extract_data, given what its one provider request did.  The
\* image file it encodes exists whenever handle_image calls it.
extract_data(outcome) ==
    IF outcome.kind = "error"
    THEN ExtractionResponse(FALSE, None, Some(outcome.msg), None)
    ELSE LET raw_content == outcome.reply
             json_str == _extract_json_from_response(raw_content.text) IN
         IF json_str = None
         THEN ExtractionResponse(FALSE, None, Some(NoJsonError), Some(raw_content))
         ELSE LET extracted_data == json_loads(json_str[1], raw_content)
                  validated_data == TransactionData(extracted_data) IN
              IF validated_data = None
              THEN ExtractionResponse(FALSE, None, Some(ValidationErrorText), None)
              ELSE ExtractionResponse(TRUE, validated_data, None, Some(raw_content))

-----------------------------------------------------------------------------
(* google_sheets.py *)

\* str(float).
PyStr(milli) ==
    CASE milli = 150000 -> "150.0"
      [] milli = 12350 -> "12.35"
      [] milli = 12346 -> "12.346"
      [] milli = 0 -> "0.0"
      [] milli = 0 - 5000 -> "-5.0"
      [] OTHER -> "?"

\* datetime.now().strftime("%Y-%m-%d %H:%M:%S") at tick t.
strftime(t) ==
    CASE t = 0 -> "2026-01-01 00:00:00"
      [] t = 1 -> "2026-01-01 00:00:01"
      [] t = 2 -> "2026-01-01 00:00:02"
      [] t = 3 -> "2026-01-01 00:00:03"
      [] OTHER -> "2026-01-01 00:00:09"

\* The row append_transaction prepares.
Row(transaction_data, now) ==
    << transaction_data.sender_name,
       transaction_data.receiver_name,
       transaction_data.account_number,
       PyStr(transaction_data.amount),
       transaction_data.date_sent,
       strftime(now) >>

\* GoogleSheetsHandler.append_transaction; append_ok says whether
\* sheet.append_row returns rather than raises.
append_transaction(transaction_data, append_ok) ==
    /\ append_calls' = append_calls + 1
    /\ IF ~sheet
       THEN /\ save_success' = Some(TRUE)
            /\ UNCHANGED <<rows, clock, appended>>
       ELSE /\ clock' = clock + 1
            /\ IF append_ok
               THEN /\ rows' = Append(rows, Row(transaction_data, clock))
                    /\ appended' = TRUE
                    /\ save_success' = Some(TRUE)
               ELSE /\ save_success' = Some(FALSE)
                    /\ UNCHANGED <<rows, appended>>

-----------------------------------------------------------------------------
(* bot.py *)

Variants == 1..3

Msg(kind, data, notice) == [kind |-> kind, data |-> data, notice |-> notice]

NotInitialized == Msg("not_initialized", None, <<"Bot is not properly initialized.">>)
Processing == Msg("processing", None, <<"Processing your receipt...">>)
GenericError == Msg("error", None, <<"An error occurred while processing your image.">>)
SaveFailed == Msg("save_failed", None,
                  <<"Data extracted but failed to save to database. Please contact admin.">>)

SavedNotice == "Data has been saved to the database."
NotSavedNotice == "Data extracted but not saved to database."
NoDatabaseNotice == "Data extracted but database not available."
RetryHint == "Please try again in a minute."
ClearerHint == "Please try again with a clearer image."

\* "rate limit" in error.lower()
MentionsRateLimit(error) == error = "Rate limit reached for requests"

\* The text of the "Extraction failed" reply.
ExtractionFailed(error) ==
    Msg("extraction_failed", None,
        IF variant = 3 THEN <<error, ClearerHint>>
        ELSE IF MentionsRateLimit(error) THEN <<error, RetryHint>>
        ELSE <<error>>)

\* ReceiptBot._format_success_message: the five fields, the amount with two
\* decimals, and the save status.
_format_success_message(data, save_status) ==
    Msg("success", Some([data EXCEPT !.amount = Round2(@)]), <<save_status>>)

perImage == <<temp_file, provider_calls, response, extraction_result, save_success,
              appended, message, escaped, append_calls>>
wiring == <<variant, ocr_processor, sheets_handler, sheet>>
store == <<rows, clock>>

\* An exception leaves handle_image, or it returns: the invocation is over.
Finish == /\ pc' = "done"
          /\ handled' = handled + 1

\* handle_image up to its first await: the guard on ocr_processor (variant 1)
\* and the "Processing" reply, both outside the try block.
Begin ==
    /\ pc \in {"idle", "done"}
    /\ handled < NumImages
    /\ temp_file' = "none"
    /\ provider_calls' = 0
    /\ response' = None
    /\ extraction_result' = None
    /\ save_success' = None
    /\ appended' = FALSE
    /\ append_calls' = 0
    /\ \E reply_ok \in BOOLEAN :
         IF ~reply_ok
         THEN /\ escaped' = TRUE
              /\ message' = None
              /\ Finish
         ELSE /\ escaped' = FALSE
              /\ IF variant = 1 /\ ~ocr_processor
                 THEN /\ message' = Some(NotInitialized)
                      /\ Finish
                 ELSE /\ message' = Some(Processing)
                      /\ pc' = "get_file"
                      /\ UNCHANGED handled
    /\ UNCHANGED <<wiring, store, arVars, qVars, jVars, cVars>>

\* photo[-1].get_file(), then the NamedTemporaryFile(delete=False).
GetFile ==
    /\ pc = "get_file"
    /\ \E ok \in BOOLEAN :
         IF ok THEN temp_file' = "exists" /\ pc' = "download"
         ELSE pc' = "except" /\ UNCHANGED temp_file
    /\ UNCHANGED <<wiring, store, handled, provider_calls, response, extraction_result,
                   save_success, appended, append_calls, message, escaped, arVars, qVars, jVars, cVars>>

\* photo_file.download_to_drive(...)
Download ==
    /\ pc = "download"
    /\ \E ok \in BOOLEAN : pc' = IF ok THEN "extract" ELSE "except"
    /\ UNCHANGED <<wiring, store, handled, perImage, arVars, qVars, jVars, cVars>>

\* self.ocr_processor.extract_data(...) is entered and issues its provider
\* request; with ocr_processor None the attribute lookup raises.
CallProvider ==
    /\ pc = "extract"
    /\ IF ~ocr_processor
       THEN /\ pc' = "except"
            /\ UNCHANGED <<provider_calls, response>>
       ELSE /\ \E o \in ProviderOutcomes : response' = Some(o)
            /\ provider_calls' = provider_calls + 1
            /\ pc' = "extracted"
    /\ UNCHANGED <<wiring, store, handled, temp_file, extraction_result, save_success,
                   appended, append_calls, message, escaped, arVars, qVars, jVars, cVars>>

\* extract_data returns; variant 3 unlinks the temp file right after it.
ExtractReturn ==
    /\ pc = "extracted"
    /\ LET r == extract_data(response[1]) IN
         /\ extraction_result' = Some(r)
         /\ pc' = IF r.success THEN "save" ELSE "report_failure"
    /\ temp_file' = IF variant = 3 THEN "deleted" ELSE temp_file
    /\ UNCHANGED <<wiring, store, handled, provider_calls, response, save_success,
                   appended, append_calls, message, escaped, arVars, qVars, jVars, cVars>>

\* The "Extraction failed" branch: edit_text(error_text), then return.
ReportFailure ==
    /\ pc = "report_failure"
    /\ \E ok \in BOOLEAN :
         IF ok
         THEN /\ message' = Some(ExtractionFailed(extraction_result[1].error[1]))
              /\ pc' = "finally"
         ELSE /\ pc' = "except"
              /\ UNCHANGED message
    /\ UNCHANGED <<wiring, store, handled, temp_file, provider_calls, response,
                   extraction_result, save_success, appended, append_calls, escaped,
                   arVars, qVars, jVars, cVars>>

\* The save step repeated until append_transaction returns True.
SaveRetrying ==
    /\ pc = "save"
    /\ append_calls < 2
    /\ \E append_ok \in BOOLEAN :
         /\ append_transaction(extraction_result[1].data[1], append_ok)
         /\ pc' = IF append_ok THEN "report" ELSE "save"
    /\ UNCHANGED <<wiring, handled, temp_file, provider_calls, response,
                   extraction_result, message, escaped, arVars, qVars, jVars, cVars>>

\* The save step.  Variant 1 calls append_transaction only when sheets_handler
\* is set; variants 2 and 3 call it unconditionally.
Save ==
    /\ pc = "save"
    /\ IF variant = 1 /\ ~sheets_handler
       THEN UNCHANGED <<store, save_success, appended, append_calls>>
       ELSE \E append_ok \in BOOLEAN :
              append_transaction(extraction_result[1].data[1], append_ok)
    /\ pc' = "report"
    /\ UNCHANGED <<wiring, handled, temp_file, provider_calls, response,
                   extraction_result, message, escaped, arVars, qVars, jVars, cVars>>

\* The text handle_image sends once the save step is over.
OutcomeText ==
    LET data == extraction_result[1].data[1] IN
    IF variant = 1
    THEN _format_success_message(data,
             IF save_success = None THEN NoDatabaseNotice
             ELSE IF save_success[1] THEN SavedNotice ELSE NotSavedNotice)
    ELSE IF ~save_success[1] THEN SaveFailed
         ELSE _format_success_message(data, SavedNotice)

\* processing_msg.edit_text(...) with the outcome.
ReportOutcome ==
    /\ pc = "report"
    /\ \E ok \in BOOLEAN :
         IF ok
         THEN /\ message' = Some(OutcomeText)
              /\ pc' = "finally"
         ELSE /\ pc' = "except"
              /\ UNCHANGED message
    /\ UNCHANGED <<wiring, store, handled, temp_file, provider_calls, response,
                   extraction_result, save_success, appended, append_calls, escaped,
                   arVars, qVars, jVars, cVars>>

\* except Exception: edit_text(generic error); an exception raised by that
\* edit_text is not caught.
HandleException ==
    /\ pc = "except"
    /\ \E ok \in BOOLEAN :
         IF ok
         THEN /\ message' = Some(GenericError)
              /\ UNCHANGED escaped
         ELSE /\ escaped' = TRUE
              /\ UNCHANGED message
    /\ pc' = "finally"
    /\ UNCHANGED <<wiring, store, handled, temp_file, provider_calls, response,
                   extraction_result, save_success, appended, append_calls, arVars, qVars, jVars, cVars>>

\* finally: variants 1 and 2 unlink the temp file if there is one; variant 3
\* has no finally clause.
Finally ==
    /\ pc = "finally"
    /\ temp_file' = IF variant \in {1, 2} /\ temp_file = "exists" THEN "deleted"
                    ELSE temp_file
    /\ Finish
    /\ UNCHANGED <<wiring, store, provider_calls, response, extraction_result,
                   save_success, appended, append_calls, message, escaped, arVars, qVars, jVars, cVars>>

\* GoogleSheetsHandler._setup_client: sheet is the worksheet, or None when the
\* credentials are missing or anything raises.
_setup_client(connect_ok) == connect_ok

\* __init__ whose except clause clears sheets_handler alone.
BotInitHandlerOnly ==
    /\ variant \in Variants
    /\ \E ocr_ok \in BOOLEAN, handler_ok \in BOOLEAN, connect_ok \in BOOLEAN :
         /\ ocr_processor = ocr_ok
         /\ sheets_handler = (ocr_ok /\ handler_ok)
         /\ sheet = (ocr_ok /\ handler_ok /\ _setup_client(connect_ok))
    /\ rows = <<>>
    /\ clock = 0
    /\ handled = 0
    /\ pc = "idle"
    /\ temp_file = "none"
    /\ provider_calls = 0
    /\ response = None
    /\ extraction_result = None
    /\ save_success = None
    /\ appended = FALSE
    /\ message = None
    /\ escaped = FALSE
    /\ append_calls = 0

\* ReceiptBot.__init__: both collaborators, or neither when a constructor raises
\* (OCRProcessor's; GoogleSheetsHandler's catches its own errors).
BotInit ==
    /\ variant \in Variants
    /\ \E ocr_ok \in BOOLEAN, connect_ok \in BOOLEAN :
         /\ ocr_processor = ocr_ok
         /\ sheets_handler = ocr_ok
         /\ sheet = (ocr_ok /\ _setup_client(connect_ok))
    /\ rows = <<>>
    /\ clock = 0
    /\ handled = 0
    /\ pc = "idle"
    /\ temp_file = "none"
    /\ provider_calls = 0
    /\ response = None
    /\ extraction_result = None
    /\ save_success = None
    /\ appended = FALSE
    /\ message = None
    /\ escaped = FALSE
    /\ append_calls = 0

-----------------------------------------------------------------------------
(* ai_processor.py *)

\* What the beta (schema-constrained) request does: it raises (a provider error,
\* or the beta API is not there), the model refuses (message.parsed is None), or
\* the model answers and the SDK parses the answer with ReceiptExtraction, which
\* raises when the answer does not validate.
BetaUnavailable == "beta API not available"
BetaOutcomes ==
    {Raised(m) : m \in ProviderErrors \cup {BetaUnavailable}}
    \cup {[kind |-> "refusal", msg |-> "", reply |-> Reply(<<>>, EmptyDict)]}
    \cup {Returned(Reply(<<"{", "K", "V", "}">>, p)) : p \in Payloads}

\* Whether client.beta.chat.completions.parse(...) raises.
BetaRaises(o) ==
    \/ o.kind = "error"
    \/ o.kind = "reply" /\ ReceiptExtraction(o.reply.payload) = None

\* completion.choices[0].message.parsed
Parsed(o) == IF o.kind = "refusal" THEN None ELSE ReceiptExtraction(o.reply.payload)

\* The fallback branch once its request is made: json.loads of the whole content
\* and ReceiptExtraction(**json_response); any exception gives None.
Fallback(o) ==
    IF o.kind = "error" THEN None
    ELSE IF ~IsJson(o.reply.text) THEN None
    ELSE ReceiptExtraction(json_loads(o.reply.text, o.reply))

\* One provider request of analyze_receipt: the tier, what the provider did,
\* and whether the request raised.
Call(tier, o, raised) == [tier |-> tier, outcome |-> o, raised |-> raised]

\* A variant of BetaParse that goes on to the standard request whatever the
\* beta request did.
BetaParseAlwaysFallback ==
    /\ ar_pc = "start"
    /\ \E o \in BetaOutcomes :
         /\ ar_calls' = Append(ar_calls, Call("beta", o, BetaRaises(o)))
         /\ ar_pc' = "fallback"
         /\ UNCHANGED ar_result
    /\ UNCHANGED <<botVars, qVars, jVars, cVars>>

\* analyze_receipt up to the return of the beta request.
BetaParse ==
    /\ ar_pc = "start"
    /\ \E o \in BetaOutcomes :
         /\ ar_calls' = Append(ar_calls, Call("beta", o, BetaRaises(o)))
         /\ IF BetaRaises(o)
            THEN /\ ar_pc' = "fallback"
                 /\ UNCHANGED ar_result
            ELSE /\ ar_pc' = "done"
                 /\ ar_result' = Some(Parsed(o))
    /\ UNCHANGED <<botVars, qVars, jVars, cVars>>

\* except Exception as beta_error: the standard request, and the return.
StandardCreate ==
    /\ ar_pc = "fallback"
    /\ \E o \in ProviderOutcomes :
         /\ ar_calls' = Append(ar_calls, Call("standard", o, o.kind = "error"))
         /\ ar_result' = Some(Fallback(o))
    /\ ar_pc' = "done"
    /\ UNCHANGED <<botVars, qVars, jVars, cVars>>

-----------------------------------------------------------------------------
(* schemas.py: QuerySchema *)

\* The fields of SearchResponse, the columns of the sheet.
FixedColumns == {"date_sent", "sender_name", "receiver_name", "account_number",
                 "amount", "timestamp"}

\* str.lower() on the column strings of the model.
Lower(s) ==
    CASE s = "Sender_Name" -> "sender_name"
      [] s = "AMOUNT" -> "amount"
      [] s = "Memo" -> "memo"
      [] OTHER -> s

RawColumns == FixedColumns \cup {"Sender_Name", "AMOUNT", "Memo", "currency", "", Missing}
RawValues == {"Jane Smith", "2500", "2025-03-01", "", Missing}

\* QuerySchema(**d): two required str fields, no validator.
QuerySchema(d) ==
    IF d.column_to_search = Missing \/ d.search_value = Missing
    THEN None                       \* pydantic.ValidationError
    ELSE Some(d)

\* QuerySchema is applied to the arguments.
BuildQuery ==
    /\ q_state = "raw"
    /\ query' = QuerySchema(q_raw[1])
    /\ q_state' = IF query' = None THEN "rejected" ELSE "constructed"
    /\ UNCHANGED <<q_raw, botVars, arVars, jVars, cVars>>

-----------------------------------------------------------------------------
(* bot.py: handle_image invocations side by side *)

\* Inbound images whose handlers the transport has started as tasks of one
\* event loop.
NumConcurrent == 2
Images == 1..NumConcurrent

\* One invocation: where it is, its temp_file_path (0 for None) and what
\* extract_data returned ("none" before that).
Handler(at, temp, result) == [pc |-> at, temp |-> temp, result |-> result]

SetH(i, at, temp, result) == h' = [h EXCEPT ![i] = Handler(at, temp, result)]
Goto(i, at) == SetH(i, at, h[i].temp, h[i].result)

\* The first reply, outside the try block.
CStart(i) ==
    /\ h[i].pc = "idle"
    /\ loop = 0
    /\ \E ok \in BOOLEAN : Goto(i, IF ok THEN "get_file" ELSE "done")
    /\ UNCHANGED <<files, next_file, loop, c_rows, botVars, arVars, qVars, jVars>>

\* get_file, then NamedTemporaryFile(delete=False): a file under a new name.
CGetFile(i) ==
    /\ h[i].pc = "get_file"
    /\ loop = 0
    /\ \E ok \in BOOLEAN :
         IF ok
         THEN /\ next_file' = next_file + 1
              /\ files' = files \cup {next_file + 1}
              /\ SetH(i, "download", next_file + 1, h[i].result)
         ELSE /\ Goto(i, "except")
              /\ UNCHANGED <<files, next_file>>
    /\ UNCHANGED <<loop, c_rows, botVars, arVars, qVars, jVars>>

\* download_to_drive
CDownload(i) ==
    /\ h[i].pc = "download"
    /\ loop = 0
    /\ \E ok \in BOOLEAN : Goto(i, IF ok THEN "extract" ELSE "except")
    /\ UNCHANGED <<files, next_file, loop, c_rows, botVars, arVars, qVars, jVars>>

\* extract_data is started: variants 1 and 2 hand it to run_in_executor and
\* await it, variant 3 calls it from the coroutine, which keeps the event loop
\* until it returns.
CSubmit(i) ==
    /\ h[i].pc = "extract"
    /\ loop = 0
    /\ Goto(i, "in_flight")
    /\ loop' = IF variant = 3 THEN i ELSE 0
    /\ UNCHANGED <<files, next_file, c_rows, botVars, arVars, qVars, jVars>>

\* extract_data returns, in the worker thread (variants 1 and 2) or in the
\* coroutine (variant 3, which then unlinks temp_file.name).
CExtractDone(i) ==
    /\ h[i].pc = "in_flight"
    /\ \E ok \in BOOLEAN :
         SetH(i, "resume", h[i].temp, IF ok THEN "ok" ELSE "failed")
    /\ files' = IF variant = 3 THEN files \ {h[i].temp} ELSE files
    /\ loop' = 0
    /\ UNCHANGED <<next_file, c_rows, botVars, arVars, qVars, jVars>>

\* The coroutine goes on: the failure text, or append_transaction and the
\* outcome text; either edit_text may raise.
CResume(i) ==
    /\ h[i].pc = "resume"
    /\ loop = 0
    /\ IF h[i].result = "ok"
       THEN \E append_ok \in BOOLEAN :
              c_rows' = IF append_ok THEN Append(c_rows, i) ELSE c_rows
       ELSE UNCHANGED c_rows
    /\ \E ok \in BOOLEAN : Goto(i, IF ok THEN "finally" ELSE "except")
    /\ UNCHANGED <<files, next_file, loop, botVars, arVars, qVars, jVars>>

\* except Exception
CExcept(i) ==
    /\ h[i].pc = "except"
    /\ loop = 0
    /\ Goto(i, "finally")
    /\ UNCHANGED <<files, next_file, loop, c_rows, botVars, arVars, qVars, jVars>>

\* finally (variants 1 and 2): unlink temp_file_path if it is set and exists.
CFinally(i) ==
    /\ h[i].pc = "finally"
    /\ loop = 0
    /\ files' = IF variant \in {1, 2} /\ h[i].temp # 0 THEN files \ {h[i].temp}
                ELSE files
    /\ Goto(i, "done")
    /\ UNCHANGED <<next_file, loop, c_rows, botVars, arVars, qVars, jVars>>

\* The steps of invocation i that the event loop runs.
LoopStep(i) ==
    \/ CStart(i)
    \/ CGetFile(i)
    \/ CDownload(i)
    \/ CSubmit(i)
    \/ CResume(i)
    \/ CExcept(i)
    \/ CFinally(i)

-----------------------------------------------------------------------------
(* Specifications *)

ArIdle == ar_pc = "idle" /\ ar_calls = <<>> /\ ar_result = None
QIdle == q_raw = None /\ q_state = "idle" /\ query = None

JIdle == j_text = <<>> /\ j_result = None
CIdle == h = <<>> /\ files = {} /\ next_file = 0 /\ loop = 0 /\ c_rows = <<>>

Init == BotInit /\ ArIdle /\ QIdle /\ JIdle /\ CIdle

Next ==
    \/ Begin
    \/ GetFile
    \/ Download
    \/ CallProvider
    \/ ExtractReturn
    \/ ReportFailure
    \/ Save
    \/ ReportOutcome
    \/ HandleException
    \/ Finally

Spec == Init /\ [][Next]_vars

\* analyze_receipt alone, the bot constructed and idle.
BotParked == BotInit /\ variant = 1 /\ ocr_processor /\ sheet

InitAnalyze ==
    /\ BotParked
    /\ ar_pc = "start" /\ ar_calls = <<>> /\ ar_result = None
    /\ QIdle /\ JIdle /\ CIdle

NextAnalyze == BetaParse \/ StandardCreate

SpecAnalyze == InitAnalyze /\ [][NextAnalyze]_vars

\* QuerySchema alone, over every argument pair of the model.
InitQuery ==
    /\ BotParked
    /\ ArIdle
    /\ \E c \in RawColumns, v \in RawValues :
         q_raw = Some([column_to_search |-> c, search_value |-> v])
    /\ q_state = "raw"
    /\ query = None
    /\ JIdle /\ CIdle

NextQuery == BuildQuery

SpecQuery == InitQuery /\ [][NextQuery]_vars

\* _extract_json_from_response on its own, over every short response text.
MaxTextLen == 5

RECURSIVE Texts(_)
Texts(n) ==
    IF n = 0 THEN {<<>>}
    ELSE LET shorter == Texts(n - 1) IN
         shorter \cup {Append(t, c) : t \in {x \in shorter : Len(x) = n - 1}, c \in Tokens}

ExtractJson ==
    /\ j_result = None
    /\ j_result' = Some(_extract_json_from_response(j_text))
    /\ UNCHANGED <<j_text, botVars, arVars, qVars, cVars>>

InitJson ==
    /\ BotParked /\ ArIdle /\ QIdle /\ CIdle
    /\ j_text \in Texts(MaxTextLen)
    /\ j_result = None

NextJson == ExtractJson

SpecJson == InitJson /\ [][NextJson]_vars

\* Several inbound images at once, each started as a task as soon as the
\* event loop is free; the bot constructed with both collaborators.
InitConc ==
    /\ BotInit /\ ocr_processor /\ sheet
    /\ ArIdle /\ QIdle /\ JIdle
    /\ h = [i \in Images |-> Handler("idle", 0, "none")]
    /\ files = {}
    /\ next_file = 0
    /\ loop = 0
    /\ c_rows = <<>>

NextConc ==
    \E i \in Images :
        \/ CStart(i)
        \/ CGetFile(i)
        \/ CDownload(i)
        \/ CSubmit(i)
        \/ CExtractDone(i)
        \/ CResume(i)
        \/ CExcept(i)
        \/ CFinally(i)

SpecConc == InitConc /\ [][NextConc]_vars

-----------------------------------------------------------------------------
(* Properties *)

\* The record extract_data returned with success=True, if any.
ExtractedRecords ==
    IF extraction_result # None /\ extraction_result[1].success
    THEN {extraction_result[1].data[1]} ELSE {}

\* The record analyze_receipt returned, if it returned one.
AnalyzedRecords ==
    IF ar_result # None /\ ar_result[1] # None THEN {ar_result[1][1]} ELSE {}

ReturnedRecords == ExtractedRecords \cup AnalyzedRecords

\* C1: every record an extraction entry point returns has an amount > 0 with
\* exactly two decimals, unless it is the all-"Unknown" sentinel record.
C1_AmountPositiveAndRounded ==
    \A r \in ReturnedRecords :
        \/ r.amount > 0 /\ HasTwoDecimals(r.amount)
        \/ r = SentinelRecord

\* C2: the date_sent of every returned record, and of every stored row (the
\* fifth cell as append_transaction lays the row out), is "Unknown" or parses
\* as YYYY-MM-DD.
C2_DateIsoOrUnknown ==
    /\ \A r \in ReturnedRecords : r.date_sent = Unknown \/ ParsesYMD(r.date_sent)
    /\ \A i \in 1..Len(rows) : rows[i][5] = Unknown \/ ParsesYMD(rows[i][5])

\* C3: append_transaction returns True only if the row was appended.
C3_TrueOnlyIfAppended == save_success = Some(TRUE) => appended

\* C4: when extraction succeeded, append_transaction returned False and an
\* outcome text reached the user, that text shows the extracted values
\* together with the "not saved" notice.
C4_PartialSuccessShowsValues ==
    (pc = "done" /\ save_success = Some(FALSE) /\ message # None
        /\ message[1].kind \notin {"processing", "error"})
    => /\ message[1].data =
              Some([extraction_result[1].data[1] EXCEPT !.amount = Round2(@)])
       /\ message[1].notice = <<NotSavedNotice>>

\* C5: no exception leaves handle_image.
C5_NothingEscapes == ~escaped

\* C6: a constructed QuerySchema names one of the fixed columns, compared
\* case-insensitively.
C6_QueryColumnIsFixed ==
    q_state = "constructed" => Lower(query[1].column_to_search) \in FixedColumns

\* C7: the row append_transaction wrote is [date_sent, sender_name,
\* receiver_name, account_number, amount, timestamp], the first five taken from
\* the record and the sixth the time of the append.
C7_RowInFixedOrder ==
    appended =>
        LET td == extraction_result[1].data[1]
            row == rows[Len(rows)] IN
        /\ Len(row) = 6
        /\ row[1] = td.date_sent
        /\ row[2] = td.sender_name
        /\ row[3] = td.receiver_name
        /\ row[4] = td.account_number
        /\ row[5] = PyStr(td.amount)
        /\ row[6] = strftime(clock - 1)

\* Whether a tier's request produced a record.
YieldsRecord(c) ==
    /\ c.outcome.kind = "reply"
    /\ ReceiptExtraction(IF c.tier = "beta" THEN c.outcome.reply.payload
                         ELSE json_loads(c.outcome.reply.text, c.outcome.reply)) # None
    /\ c.tier = "standard" => IsJson(c.outcome.reply.text)

\* C8: the beta request comes first; the standard request is made only after
\* the beta request raised; when the beta request did not raise its result is
\* returned with no further request; and None is returned only if no attempted
\* tier produced a record.
C8_TiersInOrder ==
    /\ Len(ar_calls) <= 2
    /\ Len(ar_calls) >= 1 => ar_calls[1].tier = "beta"
    /\ Len(ar_calls) = 2 => ar_calls[2].tier = "standard" /\ ar_calls[1].raised
    /\ ar_result # None => Len(ar_calls) >= 1
    /\ (Len(ar_calls) >= 1 /\ ~ar_calls[1].raised) =>
           /\ Len(ar_calls) = 1
           /\ ar_result = Some(IF ar_calls[1].outcome.kind = "refusal" THEN None
                               ELSE ReceiptExtraction(ar_calls[1].outcome.reply.payload))
    /\ ar_result = Some(None) =>
           \A i \in 1..Len(ar_calls) : ~YieldsRecord(ar_calls[i])

\* C8's case: the beta request raised, the standard request followed and
\* produced the record that was returned.
C8_Witness ==
    /\ ar_pc = "done"
    /\ Len(ar_calls) = 2
    /\ ar_calls[1].raised
    /\ ar_result # None /\ ar_result[1] # None

\* A complete record that meets the Record Model's constraints.
IsValidRecord(r) ==
    /\ r.date_sent # Missing
    /\ \A f \in TextFields : r[f] # Missing
    /\ \/ r = SentinelRecord
       \/ /\ r.amount > 0 /\ HasTwoDecimals(r.amount)
          /\ r.date_sent = Unknown \/ ParsesYMD(r.date_sent)

\* A reply from which no record can be had: no JSON object in it, or an object
\* with a field missing or a non-numeric amount.
Unusable(o) ==
    \/ o.kind = "error"
    \/ _extract_json_from_response(o.reply.text) = None
    \/ LET d == json_loads(_extract_json_from_response(o.reply.text)[1], o.reply) IN
         \/ d.date_sent = Missing
         \/ \E f \in TextFields : d[f] = Missing
         \/ d.amount.kind # "number"

\* C9: extract_data returns success=True with a complete valid record and no
\* error, or success=False with an error and no record; a reply with no JSON
\* object or with an object that fails validation gives success=False.
C9_NoPartialCredit ==
    extraction_result # None =>
        LET r == extraction_result[1] IN
        /\ \/ r.success /\ r.data # None /\ r.error = None /\ IsValidRecord(r.data[1])
           \/ ~r.success /\ r.data = None /\ r.error # None
        /\ Unusable(response[1]) => ~r.success

\* C9's case: the reply held a JSON object that failed validation and
\* extract_data returned a failure.
C9_Witness ==
    /\ extraction_result # None
    /\ response[1].kind = "reply"
    /\ _extract_json_from_response(response[1].reply.text) # None
    /\ Unusable(response[1])
    /\ ~extraction_result[1].success

\* C10: a provider error is followed by no further provider request for the
\* same image, and the failure handed back carries the provider's message.
C10_NoRequestAfterProviderError ==
    /\ \A i \in 1..Len(ar_calls) :
           (ar_calls[i].outcome.kind = "error"
               /\ ar_calls[i].outcome.msg \in ProviderErrors) => i = Len(ar_calls)
    /\ (response # None /\ response[1].kind = "error") =>
           /\ provider_calls = 1
           /\ extraction_result # None =>
                  /\ ~extraction_result[1].success
                  /\ extraction_result[1].error = Some(response[1].msg)

\* C11: while one image's extraction is in flight, the handler of another image
\* that still has a step to take can take it; and two invocations never hold
\* the same temp file.
C11_ExtractionOffLoop ==
    \A a \in Images, b \in Images :
        a # b =>
            /\ (h[a].pc = "in_flight" /\ h[b].pc \notin {"in_flight", "resume", "done"})
                   => ENABLED LoopStep(b)
            /\ h[a].temp # 0 => h[a].temp # h[b].temp

\* C12: _extract_json_from_response returns the substring from the first "{"
\* to the last "}" inclusive when that substring parses as JSON, and None in
\* every other case (no "{", no "}", the last "}" before the first "{", a slice
\* that is not JSON); it always returns.
Opens == {i \in 1..Len(j_text) : j_text[i] = "{"}
Closes == {i \in 1..Len(j_text) : j_text[i] = "}"}
FirstOpen == CHOOSE i \in Opens : \A j \in Opens : i <= j
LastClose == CHOOSE i \in Closes : \A j \in Closes : j <= i
C12_FirstToLastBrace ==
    j_result # None =>
        IF /\ Opens # {}
           /\ Closes # {}
           /\ FirstOpen < LastClose
           /\ IsJson(SubSeq(j_text, FirstOpen, LastClose))
        THEN j_result[1] = Some(SubSeq(j_text, FirstOpen, LastClose))
        ELSE j_result[1] = None

\* A text with prose before and after a JSON object: the object alone is
\* returned.
C12_Witness ==
    /\ j_result # None
    /\ j_result[1] # None
    /\ j_text[1] = "T"
    /\ j_text[Len(j_text)] = "T"
    /\ Len(j_result[1][1]) = Len(j_text) - 2

\* C13: for each image append_transaction is called at most once, and only
\* after extraction for that image returned success; when extraction failed or
\* a step before it raised, it is not called and no row is written.
ExtractionSucceeded == extraction_result # None /\ extraction_result[1].success
C13_AppendOnceAfterSuccess ==
    /\ append_calls <= 1
    /\ append_calls > 0 => ExtractionSucceeded
    /\ pc \in {"save", "report"} => ExtractionSucceeded
    /\ ~ExtractionSucceeded => append_calls = 0 /\ ~appended

\* An invocation that extracted a record, called append_transaction once and
\* is over with the row written.
C13_Witness ==
    /\ pc = "done"
    /\ ExtractionSucceeded
    /\ append_calls = 1
    /\ appended

\* C14: ocr_processor and sheets_handler are both set or both None; past the
\* "not properly initialized" guard of handle_image sheets_handler is set, and
\* the "database not available" status is never reported.
C14_BothOrNeither ==
    /\ ocr_processor = sheets_handler
    /\ (variant = 1 /\ pc \notin {"idle", "done"}) => sheets_handler
    /\ (message # None /\ message[1].kind = "success")
           => message[1].notice # <<NoDatabaseNotice>>

\* The first handle_image got past its guard with no worksheet connected,
\* extracted a record and reported it with the status append_transaction gave.
C14_Witness ==
    /\ variant = 1
    /\ pc = "done"
    /\ sheets_handler
    /\ ~sheet
    /\ save_success # None
    /\ message # None
    /\ message[1].kind = "success"

\* C15: when an invocation of handle_image is over, the temporary file it
\* created is gone, whichever path it took.
C15_TempFileDeleted == pc = "done" => temp_file # "exists"

=============================================================================
